---- MODULE Spec2Model ----
(***************************************************************************)
(* relpos: position of the JFoV camera relative to the FFoV camera.        *)
(*                                                                         *)
(* Model of src/src/relpos.cpp: main, ResolveFile, TimeCheck,              *)
(* TimeCrossCheck, FindMatchedData, ScanData, PointCross::SetPointRef,     *)
(* RotateForward / Sphere2Cart / Cart2Sphere and OutputResult.             *)
(*                                                                         *)
(* Numbers.  Times (PointRaw::secs) are kept in hundredths of a second,    *)
(* the resolution of the file names, so every secs is an integer; the      *)
(* rounding of ss * 0.01 in a double is not modelled (on the times used    *)
(* here the doubles compare as the integers do).  Angles                   *)
(* are kept in degrees; an angle in radians is kept as a whole number of   *)
(* quarter turns (API/2), so the geometry is exact for pointings whose     *)
(* angles are multiples of 90 degrees, where sin and cos are 0, 1 or -1.   *)
(* Where the exact vector has no direction (atan2(0, 0)), the longitude    *)
(* the program prints is decided by rounding residue: it is any value.     *)
(***************************************************************************)
EXTENDS Integers, Sequences, FiniteSets

\* ---------------------------------------------------------------- bounds
MaxJ == 2          \* lines of a JFoV file in the time inputs
MaxF == 3          \* lines of an FFoV file in the time inputs
MaxLines == 2      \* lines of a file in the gating inputs
MaxRes == 4        \* results in the inputs of OutputResult

\* ------------------------------------------------------- program constants
MaxGap == 1000     \* FindMatchedData: 10.0 s, in hundredths of a second

\* ------------------------------------------------------------ input sets
\* hhmmssfs fields of the file names: 00:59:55.00, 01:00:00.00, 01:00:05.00,
\* 01:00:10.00, 01:00:20.01
HmsSet == {595500, 1000000, 1000500, 1001000, 1002001}
Days == {171028, 171029}
Cids == {11, 15}   \* camera 011 (JFoV) and camera 015 (multiple of 5: FFoV)
Lons == {0, 90, 180, 270}
Lats == {-90, 0, 90}
RotGrid == {0, 45, 90, 135, 180, 225, 270, 315}

Abs(x) == IF x < 0 THEN -x ELSE x

SeqsUpTo(S, lo, hi) == UNION {[1..n -> S] : n \in lo..hi}

\* one line of an input file: R.A., DEC. and the fields of the file name
Line(ra, dc, cid, ymd, hms) == [ra |-> ra, dc |-> dc, cid |-> cid, ymd |-> ymd, hms |-> hms]

VARIABLES
  argc,        \* number of command-line words
  argv3,       \* argv[3], the rotation base, once parsed by atof
  argv4,       \* argv[4], the inclination base
  file1,       \* content of pathSrc1: [ok, lines]
  file2,       \* content of pathSrc2
  pc,          \* position in main
  ret,         \* exit status of the process, meaningful once pc = "done"
  rot0, tilt0, \* rotation and inclination base
  pt_jfov,     \* PointFile of JFoV: [cid, pts]
  pt_ffov,     \* PointFile of FFoV
  bjfov, bffov,
  pathDst,     \* name of the result file
  i, j,        \* ScanData: JFoV index (0-based) and FFoV cursor (0-based)
  pt_cross,    \* results
  calls,       \* history: one record per call of FindMatchedData
  outFile,     \* result file: "none", "written" or "failed"
  table,       \* rows printed on the console by OutputResult(stdout)
  fileRows,    \* rows written to the result file
  stats        \* unwrapped rotations of the statistics pass

vars == <<argc, argv3, argv4, file1, file2, pc, ret, rot0, tilt0, pt_jfov, pt_ffov,
          bjfov, bffov, pathDst, i, j, pt_cross, calls, outFile, table, fileRows, stats>>

\* ------------------------------------------------------- SphericalGeometry
\* radians <-> degrees; a radian value is a number of quarter turns
Deg2Rad(d) == d \div 90
Rad2Deg(q) == q * 90
PI360 == 4

Cos(q) == CASE q % 4 = 0 -> 1 [] q % 4 = 1 -> 0 [] q % 4 = 2 -> -1 [] q % 4 = 3 -> 0
Sin(q) == CASE q % 4 = 0 -> 0 [] q % 4 = 1 -> 1 [] q % 4 = 2 -> 0 [] q % 4 = 3 -> -1
Sqrt(n) == CHOOSE k \in 0..n : k * k = n

\* atan2 on the axes, in quarter turns, range (-2, 2].  atan2 of the null
\* vector: the exact value has no direction, the program's value is noise.
Atan2(y, x) ==
  CASE x > 0 /\ y = 0 -> {0}
    [] x = 0 /\ y > 0 -> {1}
    [] x < 0 /\ y = 0 -> {2}
    [] x = 0 /\ y < 0 -> {-1}
    [] x = 0 /\ y = 0 -> {-1, 0, 1, 2}

Sphere2Cart(r, alpha, beta) ==
  [x |-> r * Cos(beta) * Cos(alpha),
   y |-> r * Cos(beta) * Sin(alpha),
   z |-> r * Sin(beta)]

\* Cart2Sphere that leaves a negative longitude as atan2 returns it
Cart2Sphere_signed(x, y, z) ==
  {[r |-> Sqrt(x * x + y * y + z * z),
    alpha |-> a,
    beta |-> b] : a \in Atan2(y, x), b \in Atan2(z, Sqrt(x * x + y * y))}

\* the set of results of Cart2Sphere
Cart2Sphere(x, y, z) ==
  {[r |-> Sqrt(x * x + y * y + z * z),
    alpha |-> IF a < 0 THEN a + PI360 ELSE a,
    beta |-> b] : a \in Atan2(y, x), b \in Atan2(z, Sqrt(x * x + y * y))}

\* RotateForward with the sign of the last term of z2 reversed
RotateForward_flip(alpha0, beta0, alpha, beta) ==
  LET c1 == Sphere2Cart(1, alpha, beta)
      x2 == Sin(beta0) * Cos(alpha0) * c1.x + Sin(beta0) * Sin(alpha0) * c1.y - Cos(beta0) * c1.z
      y2 == (0 - Sin(alpha0)) * c1.x + Cos(alpha0) * c1.y
      z2 == Cos(beta0) * Cos(alpha0) * c1.x + Cos(beta0) * Sin(alpha0) * c1.y - Sin(beta0) * c1.z
  IN {[alpha |-> s.alpha, beta |-> s.beta] : s \in Cart2Sphere(x2, y2, z2)}

\* the set of results (alpha, beta) of RotateForward
RotateForward(alpha0, beta0, alpha, beta) ==
  LET c1 == Sphere2Cart(1, alpha, beta)
      x2 == Sin(beta0) * Cos(alpha0) * c1.x + Sin(beta0) * Sin(alpha0) * c1.y - Cos(beta0) * c1.z
      y2 == (0 - Sin(alpha0)) * c1.x + Cos(alpha0) * c1.y
      z2 == Cos(beta0) * Cos(alpha0) * c1.x + Cos(beta0) * Sin(alpha0) * c1.y + Sin(beta0) * c1.z
  IN {[alpha |-> s.alpha, beta |-> s.beta] : s \in Cart2Sphere(x2, y2, z2)}

\* ------------------------------------------------------------- PointCross
SetPoint(pt) == [ra |-> pt.ra, dc |-> pt.dc, fname |-> pt.fname]

\* SetPointRef that stores latitude - 90 as the tilt
SetPointRef_signed(ptc, pt) ==
  {[ra |-> ptc.ra, dc |-> ptc.dc, fname |-> ptc.fname,
    ra0 |-> pt.ra, dc0 |-> pt.dc, fname0 |-> pt.fname,
    rot |-> Rad2Deg(s.alpha),
    tilt |-> Rad2Deg(s.beta) - 90] :
      s \in RotateForward(Deg2Rad(pt.ra), Deg2Rad(pt.dc), Deg2Rad(ptc.ra), Deg2Rad(ptc.dc))}

\* the set of PointCross values SetPointRef can leave in ptc
SetPointRef(ptc, pt) ==
  {[ra |-> ptc.ra, dc |-> ptc.dc, fname |-> ptc.fname,
    ra0 |-> pt.ra, dc0 |-> pt.dc, fname0 |-> pt.fname,
    rot |-> Rad2Deg(s.alpha),
    tilt |-> 90 - Rad2Deg(s.beta)] :
      s \in RotateForward(Deg2Rad(pt.ra), Deg2Rad(pt.dc), Deg2Rad(ptc.ra), Deg2Rad(ptc.dc))}

\* -------------------------------------------------------------- ResolveFile
\* ResolveLine + ResolveFilename + the body of the loop of ResolveFile
ParseLine(l) ==
  LET ss == l.hms % 10000
      mm == (l.hms \div 10000) % 100
      hh == (l.hms \div 10000) \div 100
  IN [ra |-> l.ra, dc |-> l.dc, fname |-> <<l.cid, l.ymd, l.hms>>, ymd |-> l.ymd,
      hh |-> hh, mm |-> mm, ss |-> ss,
      secs |-> (hh * 60 + mm) * 6000 + ss]

IsFFoV(cid) == cid % 5 = 0

PathDst(cid, pts, n) == <<cid, pts[1].hh, pts[1].mm, pts[n].hh, pts[n].mm>>

\* ResolveFile(filepath), called from main, which returns -2 when it fails.
\* With no line in the file, ptr stays NULL and valid is never set: the store
\* through valid is a store through an uninitialized pointer; it stops the
\* process, or lands on some byte (a flag of the program, or elsewhere).
ResolveFile(file, nextPc) ==
  LET n == Len(file.lines) IN
  IF ~file.ok
  THEN /\ pc' = "done" /\ ret' = -2
       /\ UNCHANGED <<pt_jfov, pt_ffov, bjfov, bffov, pathDst>>
  ELSE IF n = 0
  THEN /\ pc' = "done"
       /\ \/ ret' = 139 /\ UNCHANGED <<bjfov, bffov>>
          \/ ret' = -2 /\ bjfov' \in {bjfov, FALSE} /\ bffov' \in {bffov, FALSE}
       /\ UNCHANGED <<pt_jfov, pt_ffov, pathDst>>
  ELSE LET cid == file.lines[1].cid
           new == [k \in 1..n |-> ParseLine(file.lines[k])]
       IN /\ pc' = nextPc /\ ret' = ret
          /\ IF IsFFoV(cid)
             THEN /\ pt_ffov' = [cid |-> cid, pts |-> pt_ffov.pts \o new]
                  /\ bffov' = (n > 0)
                  /\ UNCHANGED <<pt_jfov, bjfov, pathDst>>
             ELSE /\ pt_jfov' = [cid |-> cid, pts |-> pt_jfov.pts \o new]
                  /\ bjfov' = (n > 0)
                  /\ pathDst' = PathDst(cid, pt_jfov.pts \o new, n)
                  /\ UNCHANGED <<pt_ffov, bffov>>

\* --------------------------------------------------- TimeCheck, TimeCrossCheck
TimeCheck(ptf) == \A k \in 1..Len(ptf.pts) : ptf.pts[k].ymd = ptf.pts[1].ymd

\* no comparison of the dates of the two series
TimeCrossCheck_none == TRUE

TimeCrossCheck == pt_ffov.pts[1].ymd = pt_jfov.pts[1].ymd

\* ---------------------------------------------------------- FindMatchedData
\* the loop stopping one sample short of the end of the series
RECURSIVE FindLoop_short(_, _, _, _, _)
FindLoop_short(secs, from, dt0, k, n) ==
  IF k >= n - 1 THEN from
  ELSE LET dt1 == Abs(secs - pt_ffov.pts[k + 1].secs)
       IN IF dt1 > dt0 THEN from
          ELSE FindLoop_short(secs, k, dt1, k + 1, n)

\* the loop leaving as soon as the difference does not decrease
RECURSIVE FindLoop_strict(_, _, _, _, _)
FindLoop_strict(secs, from, dt0, k, n) ==
  IF k >= n THEN from
  ELSE LET dt1 == Abs(secs - pt_ffov.pts[k + 1].secs)
       IN IF dt1 >= dt0 THEN from
          ELSE FindLoop_strict(secs, k, dt1, k + 1, n)

\* the for loop of FindMatchedData, entered with i = k; indices are 0-based
RECURSIVE FindLoop(_, _, _, _, _)
FindLoop(secs, from, dt0, k, n) ==
  IF k >= n THEN from
  ELSE LET dt1 == Abs(secs - pt_ffov.pts[k + 1].secs)
       IN IF dt1 > dt0 THEN from
          ELSE FindLoop(secs, k, dt1, k + 1, n)

\* the index the loop leaves in from
FindNearest(secs, from, n) ==
  FindLoop(secs, from, Abs(secs - pt_ffov.pts[from + 1].secs), from + 1, n)

\* a gap of exactly 10 s refused
GapResult_strict(secs, from) ==
  IF Abs(secs - pt_ffov.pts[from + 1].secs) >= MaxGap THEN -1 ELSE from

GapResult(secs, from) ==
  IF Abs(secs - pt_ffov.pts[from + 1].secs) > MaxGap THEN -1 ELSE from

FindMatchedData(secs, from, n) == GapResult(secs, FindNearest(secs, from, n))

\* ----------------------------------------------------------------- ScanData
\* the cursor sent back to the start of the series by a dropped sample
NextCursor_reset(cur, k) == IF k >= 0 THEN k ELSE 0

\* the cursor after one iteration of the loop of ScanData
NextCursor(cur, k) == IF k >= 0 THEN k ELSE cur

\* one iteration of the for loop of ScanData
ScanStep ==
  /\ pc = "scan"
  /\ i < Len(pt_jfov.pts)
  /\ LET n2 == Len(pt_ffov.pts)
         pt == pt_jfov.pts[i + 1]
         k == FindMatchedData(pt.secs, j, n2)
     IN /\ j' = NextCursor(j, k)
        /\ calls' = Append(calls, [i |-> i, secs |-> pt.secs, from |-> j,
                                   stop |-> FindNearest(pt.secs, j, n2), k |-> k])
        /\ IF k >= 0
           THEN \E ptc \in SetPointRef(SetPoint(pt), pt_ffov.pts[j' + 1]) :
                   pt_cross' = Append(pt_cross, ptc)
           ELSE pt_cross' = pt_cross
  /\ i' = i + 1
  /\ UNCHANGED <<argc, argv3, argv4, file1, file2, pc, ret, rot0, tilt0, pt_jfov, pt_ffov,
                 bjfov, bffov, pathDst, outFile, table, fileRows, stats>>

\* the loop of ScanData is over; main goes on
ScanDone ==
  /\ pc = "scan"
  /\ i >= Len(pt_jfov.pts)
  /\ pc' = "result"
  /\ UNCHANGED <<argc, argv3, argv4, file1, file2, ret, rot0, tilt0, pt_jfov, pt_ffov,
                 bjfov, bffov, pathDst, i, j, pt_cross, calls, outFile, table, fileRows, stats>>

\* ------------------------------------------------------------- OutputResult
\* the residual wrapped downwards only
WrapResidual_oneway(base, rot) ==
  LET drot == base - rot
  IN IF drot > 180 THEN drot - 360
     ELSE drot

\* the residual rotation of one row
WrapResidual(base, rot) ==
  LET drot == base - rot
  IN IF drot > 180 THEN drot - 360
     ELSE IF drot < -180 THEN drot + 360
     ELSE drot

Row(pt) == [ra |-> pt.ra, dc |-> pt.dc, fname |-> pt.fname,
            ra0 |-> pt.ra0, dc0 |-> pt.dc0, fname0 |-> pt.fname0,
            rot |-> pt.rot, tilt |-> pt.tilt,
            drot |-> WrapResidual(rot0, pt.rot), dtilt |-> tilt0 - pt.tilt]

\* the running rotation of the statistics pass after one more result
UnwrapStep(rot, ptrot) ==
  LET drot == ptrot - rot
  IN IF drot > 180 THEN ptrot - 360
     ELSE IF drot < -180 THEN ptrot + 360
     ELSE ptrot

\* the values rot takes in the statistics loop, one per result
RECURSIVE Unwrap(_, _, _)
Unwrap(rot, k, acc) ==
  IF k > Len(pt_cross) THEN acc
  ELSE LET r == UnwrapStep(rot, pt_cross[k].rot)
       IN Unwrap(r, k + 1, Append(acc, r))

Reduce(x, period) == x % period

SeqMin(s) == CHOOSE m \in {s[k] : k \in 1..Len(s)} : \A k \in 1..Len(s) : m <= s[k]
SeqMax(s) == CHOOSE m \in {s[k] : k \in 1..Len(s)} : \A k \in 1..Len(s) : m >= s[k]

\* the statistics printed on the console (extrema; the means and deviations
\* are quotients and roots of these sums and are only printed)
Statistics ==
  LET u == Unwrap(pt_cross[1].rot, 1, <<>>)
      t == [k \in 1..Len(pt_cross) |-> pt_cross[k].tilt]
  IN [rot |-> u,
      rmin |-> Reduce(SeqMin(u), 360), rmax |-> Reduce(SeqMax(u), 360),
      tmin |-> SeqMin(t), tmax |-> SeqMax(t)]

\* OutputResult(fp): the rows, and the statistics when fp is the console
OutputResult(console) ==
  IF Len(pt_cross) = 0 THEN [rows |-> <<>>, stat |-> <<>>]
  ELSE [rows |-> [k \in 1..Len(pt_cross) |-> Row(pt_cross[k])],
        stat |-> IF console THEN <<Statistics>> ELSE <<>>]

\* --------------------------------------------------------------------- main
Main_Args ==
  /\ pc = "args"
  /\ IF argc < 3
     THEN /\ pc' = "done" /\ ret' = -1
          /\ UNCHANGED <<rot0, tilt0, bjfov, bffov>>
     ELSE /\ rot0' = (IF argc >= 4 THEN argv3 ELSE 0)
          /\ tilt0' = (IF argc >= 5 THEN argv4 ELSE 0)
          /\ bjfov' = FALSE /\ bffov' = FALSE
          /\ pc' = "resolve1" /\ ret' = ret
  /\ UNCHANGED <<argc, argv3, argv4, file1, file2, pt_jfov, pt_ffov, pathDst, i, j,
                 pt_cross, calls, outFile, table, fileRows, stats>>

Main_Resolve1 ==
  /\ pc = "resolve1"
  /\ ResolveFile(file1, "resolve2")
  /\ UNCHANGED <<argc, argv3, argv4, file1, file2, rot0, tilt0, i, j,
                 pt_cross, calls, outFile, table, fileRows, stats>>

Main_Resolve2 ==
  /\ pc = "resolve2"
  /\ ResolveFile(file2, "available")
  /\ UNCHANGED <<argc, argv3, argv4, file1, file2, rot0, tilt0, i, j,
                 pt_cross, calls, outFile, table, fileRows, stats>>

\* if (!bjfov) return -3; if (!bffov) return -3;
Main_Available ==
  /\ pc = "available"
  /\ IF ~bjfov \/ ~bffov
     THEN pc' = "done" /\ ret' = -3
     ELSE pc' = "timecheck" /\ ret' = ret
  /\ UNCHANGED <<argc, argv3, argv4, file1, file2, rot0, tilt0, pt_jfov, pt_ffov,
                 bjfov, bffov, pathDst, i, j, pt_cross, calls, outFile, table, fileRows, stats>>

TimesMatch == TimeCheck(pt_jfov) /\ TimeCheck(pt_ffov) /\ TimeCrossCheck

\* the date checks, then the entry of ScanData (i = 0, j = 0)
Main_TimeCheck ==
  /\ pc = "timecheck"
  /\ IF ~TimesMatch
     THEN pc' = "done" /\ ret' = -4 /\ UNCHANGED <<i, j>>
     ELSE pc' = "scan" /\ ret' = ret /\ i' = 0 /\ j' = 0
  /\ UNCHANGED <<argc, argv3, argv4, file1, file2, rot0, tilt0, pt_jfov, pt_ffov,
                 bjfov, bffov, pathDst, pt_cross, calls, outFile, table, fileRows, stats>>

\* "no any data matches condition"
Main_NoMatch ==
  /\ pc = "result"
  /\ Len(pt_cross) = 0
  /\ pc' = "done" /\ ret' = 0
  /\ UNCHANGED <<argc, argv3, argv4, file1, file2, rot0, tilt0, pt_jfov, pt_ffov,
                 bjfov, bffov, pathDst, i, j, pt_cross, calls, outFile, table, fileRows, stats>>

\* OutputResult(stdout), fopen(pathDst), OutputResult(fp), pt_cross.clear()
Main_Report ==
  /\ pc = "result"
  /\ Len(pt_cross) > 0
  /\ table' = OutputResult(TRUE).rows
  /\ stats' = OutputResult(TRUE).stat
  /\ \/ outFile' = "written" /\ fileRows' = OutputResult(FALSE).rows
     \/ outFile' = "failed" /\ fileRows' = <<>>
  /\ pt_cross' = <<>>
  /\ pc' = "done" /\ ret' = 0
  /\ UNCHANGED <<argc, argv3, argv4, file1, file2, rot0, tilt0, pt_jfov, pt_ffov,
                 bjfov, bffov, pathDst, i, j, calls>>

\* --------------------------------------------------------- initial states
NoFile == [cid |-> 0, pts |-> <<>>]

\* the globals of the program at its start
Globals ==
  /\ pc = "args" /\ ret = 0
  /\ rot0 = 0 /\ tilt0 = 0
  /\ pt_jfov = NoFile /\ pt_ffov = NoFile
  /\ bjfov = FALSE /\ bffov = FALSE
  /\ pathDst = <<>>
  /\ i = 0 /\ j = 0
  /\ pt_cross = <<>> /\ calls = <<>>
  /\ outFile = "none" /\ table = <<>> /\ fileRows = <<>> /\ stats = <<>>

\* a JFoV file and an FFoV file of one night, pointings fixed, times free
InitTimes ==
  /\ argc = 3 /\ argv3 = 0 /\ argv4 = 0
  /\ \E s \in SeqsUpTo(HmsSet, 1, MaxJ) :
       file1 = [ok |-> TRUE, lines |-> [k \in 1..Len(s) |-> Line(90, 0, 11, 171028, s[k])]]
  /\ \E s \in SeqsUpTo(HmsSet, 1, MaxF) :
       file2 = [ok |-> TRUE, lines |-> [k \in 1..Len(s) |-> Line(0, 0, 15, 171028, s[k])]]

\* one JFoV and one FFoV sample of the same instant, pointings free
InitGeom ==
  /\ argc = 4 /\ argv3 \in Lons /\ argv4 = 0
  /\ \E ra \in Lons, dc \in Lats :
       file1 = [ok |-> TRUE, lines |-> <<Line(ra, dc, 11, 171028, 1000000)>>]
  /\ \E ra \in Lons, dc \in Lats :
       file2 = [ok |-> TRUE, lines |-> <<Line(ra, dc, 15, 171028, 1000000)>>]

GateLines == {Line(0, 0, cid, ymd, 1000000) : cid \in Cids, ymd \in Days}
GateFiles == {[ok |-> FALSE, lines |-> <<>>]}
               \cup {[ok |-> TRUE, lines |-> s] : s \in SeqsUpTo(GateLines, 0, MaxLines)}

\* any command line; files that may be missing, empty, of either camera, of
\* either night
InitGate ==
  /\ argc \in {2, 3, 5} /\ argv3 = 90 /\ argv4 = 90
  /\ file1 \in GateFiles
  /\ file2 \in GateFiles

Init == Globals /\ (InitTimes \/ InitGeom \/ InitGate)

Next ==
  \/ Main_Args
  \/ Main_Resolve1
  \/ Main_Resolve2
  \/ Main_Available
  \/ Main_TimeCheck
  \/ ScanStep
  \/ ScanDone
  \/ Main_NoMatch
  \/ Main_Report

Spec == Init /\ [][Next]_vars

\* OutputResult on any list of results: rotations on a 45 degree grid
ResultSet == {[ra |-> 0, dc |-> 0, fname |-> <<>>, ra0 |-> 0, dc0 |-> 0, fname0 |-> <<>>,
               rot |-> r, tilt |-> 90] : r \in RotGrid}

InitOutput ==
  /\ argc = 4 /\ argv3 \in RotGrid /\ argv4 = 0
  /\ file1 = [ok |-> TRUE, lines |-> <<>>] /\ file2 = [ok |-> TRUE, lines |-> <<>>]
  /\ pc = "result" /\ ret = 0
  /\ rot0 = argv3 /\ tilt0 = 0
  /\ pt_jfov = NoFile /\ pt_ffov = NoFile
  /\ bjfov = TRUE /\ bffov = TRUE
  /\ pathDst = <<>>
  /\ i = 0 /\ j = 0
  /\ pt_cross \in SeqsUpTo(ResultSet, 1, MaxRes)
  /\ calls = <<>>
  /\ outFile = "none" /\ table = <<>> /\ fileRows = <<>> /\ stats = <<>>

NextOutput == Main_Report

SpecOutput == InitOutput /\ [][NextOutput]_vars

\* ------------------------------------------------------------- properties
NJ == Len(pt_jfov.pts)
NF == Len(pt_ffov.pts)

\* time of the FFoV sample of 0-based index e
FSecs(e) == pt_ffov.pts[e + 1].secs

\* |secs - time of FFoV sample e|
Gap(secs, e) == Abs(secs - FSecs(e))

Sorted(pts) == \A a, b \in 1..Len(pts) : a < b => pts[a].secs <= pts[b].secs

SortedInputs == NF > 0 /\ Sorted(pt_jfov.pts) /\ Sorted(pt_ffov.pts)

Matched == {a \in 1..Len(calls) : calls[a].k >= 0}
Dropped == {a \in 1..Len(calls) : calls[a].k = -1}

\* C1: with both series non-decreasing in time, every emitted pair joins the
\* JFoV sample to an FFoV sample whose time difference is the least over the
\* whole FFoV series, the samples before the cursor included.
C1_NearestOverall ==
  SortedInputs =>
    \A a \in Matched : \A e \in 0..(NF - 1) :
      Gap(calls[a].secs, calls[a].k) <= Gap(calls[a].secs, e)

\* a pair emitted from a cursor that has already left FFoV samples behind
C1_Witness ==
  /\ SortedInputs
  /\ \E a \in Matched : calls[a].from > 0 /\ calls[a].k > calls[a].from
                        /\ FSecs(0) < FSecs(calls[a].from)

\* C2: with both series non-decreasing in time, every emitted pair is at most
\* 10 s apart, and no FFoV sample at all lies within 10 s of a dropped JFoV
\* sample.
C2_GapBound ==
  SortedInputs =>
    /\ \A a \in Matched : Gap(calls[a].secs, calls[a].k) <= MaxGap
    /\ \A a \in Dropped : \A e \in 0..(NF - 1) : Gap(calls[a].secs, e) > MaxGap

\* a pair exactly 10 s apart is emitted and another JFoV sample is dropped
C2_Witness ==
  /\ SortedInputs
  /\ \E a \in Matched : Gap(calls[a].secs, calls[a].k) = MaxGap
  /\ \E a \in Dropped : \E e \in 0..(NF - 1) : Gap(calls[a].secs, e) = MaxGap + 1

\* C3: for any input, sorted or not, with a non-empty FFoV series: the cursor
\* of ScanData stays in [0, n_ffov) and never decreases, dropped samples
\* included, and the FFoV indices of successive pairs are non-decreasing.
C3_CursorMonotone ==
  (NF > 0 /\ (pc \in {"scan", "result"} \/ calls # <<>>)) =>
    /\ 0 <= j /\ j < NF
    /\ \A a \in 1..Len(calls) : 0 <= calls[a].from /\ calls[a].from < NF
    /\ \A a \in 1..Len(calls) : a < Len(calls) => calls[a].from <= calls[a + 1].from
    /\ calls # <<>> => calls[Len(calls)].from <= j
    /\ \A a, b \in Matched : a < b => calls[a].k <= calls[b].k

\* on unsorted input, a sample is dropped after the cursor has moved, and the
\* cursor is where it was
C3_Witness ==
  /\ ~Sorted(pt_ffov.pts)
  /\ \E a \in Dropped : a = Len(calls) /\ calls[a].from > 0 /\ j = calls[a].from

\* rows of the console table whose inputs are both in [0, 360)
RowsInRange == {k \in 1..Len(table) : 0 <= rot0 /\ rot0 < 360
                                       /\ 0 <= table[k].rot /\ table[k].rot < 360}

Gate ==
  /\ NJ > 0 /\ NF > 0
  /\ TimeCheck(pt_jfov) /\ TimeCheck(pt_ffov)
  /\ pt_ffov.pts[1].ymd = pt_jfov.pts[1].ymd

Results == {pt_cross[k] : k \in 1..Len(pt_cross)}

\* C6 as stated: with the pole at (0, 0) the point comes back unchanged.
C6_PoleOrigin ==
  \A r \in Results : (r.ra0 = 0 /\ r.dc0 = 0) => (r.rot = r.ra /\ r.tilt = 90 - r.dc)

\* C6 amended: the frame that changes nothing has its pole at longitude 0,
\* latitude 90: there tilt = 90 - lat for every point, and rotation = lon for
\* every point that is not itself at a pole (lat = +/-90, where the longitude
\* has no meaning).
C6_PoleNorth ==
  \A r \in Results : (r.ra0 = 0 /\ r.dc0 = 90) =>
    /\ r.tilt = 90 - r.dc
    /\ r.dc \notin {-90, 90} => r.rot = r.ra

\* a point of the equator at longitude 270 seen from the pole (0, 90)
C6_Witness ==
  \E r \in Results : r.ra0 = 0 /\ r.dc0 = 90 /\ r.ra = 270 /\ r.dc = 0 /\ r.rot = 270

\* C7 as stated: identical pointings give a tilt of 90 degrees.
C7_SameTilt90 ==
  \A r \in Results : (r.ra = r.ra0 /\ r.dc = r.dc0) => r.tilt = 90

\* C7 amended: identical pointings give a tilt of 0 degrees (the JFoV pointing
\* is the pole of the FFoV frame, latitude 90, and tilt is 90 - latitude).
C7_SameTilt0 ==
  \A r \in Results : (r.ra = r.ra0 /\ r.dc = r.dc0) => r.tilt = 0

\* identical pointings away from the origin of the sky
C7_Witness ==
  \E r \in Results : r.ra = r.ra0 /\ r.dc = r.dc0 /\ r.ra = 90 /\ r.dc = -90

\* C8 as stated: the tilt of every result lies in [-90, 90].
C8_TiltSigned ==
  \A r \in Results : -90 <= r.tilt /\ r.tilt <= 90

\* C8 amended: the tilt of every result lies in [0, 180] (90 minus a latitude
\* of [-90, 90]); opposite pointings give 180.
C8_TiltColatitude ==
  \A r \in Results : 0 <= r.tilt /\ r.tilt <= 180

\* opposite pointings
C8_Witness ==
  \E r \in Results : r.tilt = 180 /\ r.ra = 0 /\ r.dc = 0 /\ r.ra0 = 180 /\ r.dc0 = 0

\* C9 as stated: the scan advances only while the difference strictly
\* decreases, so that of two FFoV samples equally far the earlier is returned.
C9_StrictScan ==
  \A a \in 1..Len(calls) :
    /\ \A e \in calls[a].from..(calls[a].stop - 1) :
         Gap(calls[a].secs, e + 1) < Gap(calls[a].secs, e)
    /\ calls[a].stop < NF - 1 =>
         Gap(calls[a].secs, calls[a].stop + 1) >= Gap(calls[a].secs, calls[a].stop)

\* C9 amended: the scan advances while the difference does not increase and
\* stops at the first FFoV sample whose difference is larger than the current
\* one, so that of two FFoV samples equally far the later is returned.
C9_NonIncreasingScan ==
  \A a \in 1..Len(calls) :
    /\ calls[a].from <= calls[a].stop /\ calls[a].stop < NF
    /\ \A e \in calls[a].from..(calls[a].stop - 1) :
         Gap(calls[a].secs, e + 1) <= Gap(calls[a].secs, e)
    /\ calls[a].stop < NF - 1 =>
         Gap(calls[a].secs, calls[a].stop + 1) > Gap(calls[a].secs, calls[a].stop)
    /\ calls[a].k \in {-1, calls[a].stop}

\* a JFoV sample halfway between two FFoV samples is paired with the later one
C9_Witness ==
  \E a \in Matched :
    /\ calls[a].k = calls[a].from + 1
    /\ FSecs(calls[a].from) < calls[a].secs /\ calls[a].secs < FSecs(calls[a].k)
    /\ Gap(calls[a].secs, calls[a].from) = Gap(calls[a].secs, calls[a].k)

\* C10: in the statistics pass every unwrapped rotation differs from the
\* previous unwrapped rotation by at most 180 degrees.
C10_UnwrapContinuous ==
  \A s \in 1..Len(stats) : \A k \in 2..Len(stats[s].rot) :
    Abs(stats[s].rot[k] - stats[s].rot[k - 1]) <= 180

====
